---- MODULE Spec2Model ----
(***************************************************************************)
(* Model of the AK09916 magnetometer driver (src/src/lib.rs,               *)
(* src/src/regs.rs).                                                       *)
(*                                                                         *)
(* The driver owns an I2C bus handle and a delay provider.  Every function *)
(* of the driver is modelled as a resumable body: given its frame (program *)
(* position, arguments, locals) and the value handed back by whatever it   *)
(* called last, it says what it does next: call another driver function,   *)
(* issue one primitive operation (bus write, bus write-then-read, bus      *)
(* read, delay), or return.  The call stack is the variable frames, the    *)
(* primitive in flight is pending, and trace records the primitives that   *)
(* completed within the current top-level call, with the device's answers. *)
(***************************************************************************)
EXTENDS Integers, Sequences, FiniteSets, TLC

VARIABLES
    variant,   \* "blocking" or "asynch": which of the two driver modules is used
    call,      \* the current (or last) top-level call: function and argument
    frames,    \* call stack of driver functions, innermost last
    pending,   \* the primitive operation in flight (NoReq when none)
    trace,     \* completed primitive operations of the current top-level call
    result,    \* value returned by the last completed top-level call
    dec_in,    \* input of the pure decoding functions (decoder specification)
    dec_out    \* output of the pure decoding functions (decoder specification)

vars == <<variant, call, frames, pending, trace, result, dec_in, dec_out>>

(***************************************************************************)
(* Bounds of the model                                                     *)
(***************************************************************************)
\* longest recorded trace of primitive operations within one call
MaxTrace == 9

(***************************************************************************)
(* Bit arithmetic on u8                                                    *)
(***************************************************************************)
RECURSIVE BitAnd(_, _)
BitAnd(a, b) ==
    IF a = 0 \/ b = 0 THEN 0
    ELSE (a % 2) * (b % 2) + 2 * BitAnd(a \div 2, b \div 2)

RECURSIVE BitOr(_, _)
BitOr(a, b) ==
    IF a = 0 THEN b
    ELSE IF b = 0 THEN a
    ELSE (IF (a % 2) + (b % 2) > 0 THEN 1 ELSE 0) + 2 * BitOr(a \div 2, b \div 2)

\* bitflags: from_bits_truncate, contains
from_bits_truncate(value, all) == BitAnd(value, all)
contains(flags, other) == BitAnd(flags, other) = other

\* i16::from_le_bytes([lo, hi])
i16_from_le_bytes(lo, hi) ==
    LET u == lo + 256 * hi IN IF u >= 32768 THEN u - 65536 ELSE u

(***************************************************************************)
(* Constants of lib.rs                                                     *)
(***************************************************************************)
I2C_ADDRESS == 12
MODE_SET_WAIT_TIME_US == 100
SENSITIVITY_NT_PER_BIT == 150

\* enum Mode, with its repr(u8) discriminants
Mode ==
    [ PowerDown |-> 0, SingleMeasurement |-> 1, Continuous10Hz |-> 2,
      Continuous20Hz |-> 4, Continuous50Hz |-> 6, Continuous100Hz |-> 8,
      SelfTest |-> 16 ]

u8_from_Mode(mode) == Mode[mode]

\* bitflags MeasurementFlags
MeasurementFlags_OVERFLOW == 8
MeasurementFlags_OVERRUN == 2
MeasurementFlags_empty == 0

(***************************************************************************)
(* regs.rs: register addresses and codecs                                  *)
(***************************************************************************)
RegisterAddress ==
    [ Wia1 |-> 0, Wia2 |-> 1, Rsv1 |-> 2, Rsv2 |-> 3, St1 |-> 16,
      Hxl |-> 17, Hxh |-> 18, Hyl |-> 19, Hyh |-> 20, Hzl |-> 21, Hzh |-> 22,
      Tmps |-> 23, St2 |-> 24, Cntl1 |-> 48, Cntl2 |-> 49, Cntl3 |-> 50,
      Ts1 |-> 51, Ts2 |-> 52 ]

u8_from_RegisterAddress(a) == RegisterAddress[a]

\* bitflags St1
St1_DOR == 2
St1_DRDY == 1
St1_all == BitOr(St1_DOR, St1_DRDY)
\* From<u8> for St1 that keeps every bit
St1_from_bits_retain(value) == value

St1_from(value) == from_bits_truncate(value, St1_all)
u8_from_St1(value) == value

\* bitflags St2
St2_RSV30 == 64
St2_RSV29 == 32
St2_RSV28 == 16
St2_HOFL == 8
St2_all == BitOr(BitOr(St2_RSV30, St2_RSV29), BitOr(St2_RSV28, St2_HOFL))
St2_from(value) == from_bits_truncate(value, St2_all)
u8_from_St2(value) == value

\* bitflags Cntl3
Cntl3_SRST == 1
Cntl3_all == Cntl3_SRST
Cntl3_from(value) == from_bits_truncate(value, Cntl3_all)
u8_from_Cntl3(value) == value

\* enum ModeRegister { Mode(Mode), Other(u8) }
ModeRegister_Mode(mode) == [tag |-> "Mode", mode |-> mode, value |-> 0]
ModeRegister_Other(value) == [tag |-> "Other", mode |-> "", value |-> value]

\* Mode::try_from(number): the mode with that discriminant, if any
Mode_try_from(number) ==
    IF \E m \in DOMAIN Mode : Mode[m] = number
    THEN [ok |-> TRUE, mode |-> CHOOSE m \in DOMAIN Mode : Mode[m] = number, number |-> number]
    ELSE [ok |-> FALSE, mode |-> "", number |-> number]

\* ModeRegister::from that masks with 0b1111, one bit short
ModeRegister_from_four_bits(value) ==
    LET t == Mode_try_from(BitAnd(value, 15))
    IN IF t.ok THEN ModeRegister_Mode(t.mode) ELSE ModeRegister_Other(t.number)

\* ModeRegister::from that looks at the whole byte
ModeRegister_from_unmasked(value) ==
    LET t == Mode_try_from(value)
    IN IF t.ok THEN ModeRegister_Mode(t.mode) ELSE ModeRegister_Other(t.number)

ModeRegister_from(value) ==
    LET t == Mode_try_from(BitAnd(value, 31))
    IN IF t.ok THEN ModeRegister_Mode(t.mode) ELSE ModeRegister_Other(t.number)

u8_from_ModeRegister(value) ==
    IF value.tag = "Mode" THEN u8_from_Mode(value.mode) ELSE value.value

\* struct Cntl2(ModeRegister)
Cntl2_from_Mode(value) == ModeRegister_Mode(value)
Cntl2_from(value) == ModeRegister_from(value)
u8_from_Cntl2(value) == u8_from_ModeRegister(value)

\* impl_transparent_reg8!: Wia1, Wia2, Hxl, Hxh, Hyl, Hyh, Hzl, Hzh
TransparentReg8 == {"Wia1", "Wia2", "Hxl", "Hxh", "Hyl", "Hyh", "Hzl", "Hzh"}
transparent_reg8_from(value) == value
u8_from_transparent_reg8(value) == value

\* trait Register8: ADDRESS, From<u8>, Into<u8>, and the types implementing it
Register8Types == TransparentReg8 \cup {"St1", "St2", "Cntl2", "Cntl3"}

Register8_ADDRESS(R) ==
    CASE R \in TransparentReg8 -> R
      [] R = "St1" -> "St1"
      [] R = "St2" -> "St2"
      [] R = "Cntl2" -> "Cntl2"
      [] R = "Cntl3" -> "Cntl3"

Register8_from(R, value) ==
    CASE R \in TransparentReg8 -> transparent_reg8_from(value)
      [] R = "St1" -> St1_from(value)
      [] R = "St2" -> St2_from(value)
      [] R = "Cntl2" -> Cntl2_from(value)
      [] R = "Cntl3" -> Cntl3_from(value)

Register8_into(R, register) ==
    CASE R \in TransparentReg8 -> u8_from_transparent_reg8(register)
      [] R = "St1" -> u8_from_St1(register)
      [] R = "St2" -> u8_from_St2(register)
      [] R = "Cntl2" -> u8_from_Cntl2(register)
      [] R = "Cntl3" -> u8_from_Cntl3(register)

\* trait Register16: Hx, Hy, Hz, addressed at their low byte
Register16Types == {"Hx", "Hy", "Hz"}
Register16_ADDRESS(R) ==
    CASE R = "Hx" -> "Hxl"
      [] R = "Hy" -> "Hyl"
      [] R = "Hz" -> "Hzl"
Register16_from(R, value) == value

\* from_raw_data that takes status-2 one byte early, at offset 11
RegisterDump_from_raw_data_st2_at_11(buffer) ==
    [ company_id |-> transparent_reg8_from(buffer[1]),
      device_id |-> transparent_reg8_from(buffer[2]),
      st1 |-> St1_from(buffer[5]),
      hx |-> i16_from_le_bytes(buffer[6], buffer[7]),
      hy |-> i16_from_le_bytes(buffer[8], buffer[9]),
      hz |-> i16_from_le_bytes(buffer[10], buffer[11]),
      st2 |-> St2_from(buffer[12]),
      mode |-> Cntl2_from(buffer[15]),
      cntl3 |-> Cntl3_from(buffer[16]) ]

\* RegisterDump::from_raw_data; buffer[i + 1] here is buffer[i] of the source
RegisterDump_from_raw_data(buffer) ==
    [ company_id |-> transparent_reg8_from(buffer[1]),
      device_id |-> transparent_reg8_from(buffer[2]),
      st1 |-> St1_from(buffer[5]),
      hx |-> i16_from_le_bytes(buffer[6], buffer[7]),
      hy |-> i16_from_le_bytes(buffer[8], buffer[9]),
      hz |-> i16_from_le_bytes(buffer[10], buffer[11]),
      st2 |-> St2_from(buffer[13]),
      mode |-> Cntl2_from(buffer[15]),
      cntl3 |-> Cntl3_from(buffer[16]) ]

(***************************************************************************)
(* lib.rs: Measurement and SelfTestResult                                  *)
(***************************************************************************)
\* from_raw_data that reports overflow whenever any status-2 bit is set
Measurement_from_raw_data_any_st2(st1, buffer) ==
    LET st2 == St2_from(buffer[8])
    IN [ hx |-> i16_from_le_bytes(buffer[1], buffer[2]),
         hy |-> i16_from_le_bytes(buffer[3], buffer[4]),
         hz |-> i16_from_le_bytes(buffer[5], buffer[6]),
         flags |-> BitOr(IF contains(st1, St1_DOR)
                           THEN MeasurementFlags_OVERRUN
                           ELSE MeasurementFlags_empty,
                         IF st2 # 0
                           THEN MeasurementFlags_OVERFLOW
                           ELSE MeasurementFlags_empty) ]

\* from_raw_data that takes the overrun bit from the block's status byte
Measurement_from_raw_data_overrun_from_block(st1, buffer) ==
    LET st2 == St2_from(buffer[8])
    IN [ hx |-> i16_from_le_bytes(buffer[1], buffer[2]),
         hy |-> i16_from_le_bytes(buffer[3], buffer[4]),
         hz |-> i16_from_le_bytes(buffer[5], buffer[6]),
         flags |-> BitOr(IF contains(buffer[8], St1_DOR)
                           THEN MeasurementFlags_OVERRUN
                           ELSE MeasurementFlags_empty,
                         IF contains(st2, St2_HOFL)
                           THEN MeasurementFlags_OVERFLOW
                           ELSE MeasurementFlags_empty) ]

\* buffer is the 8-byte block; buffer[i + 1] here is buffer[i] of the source
Measurement_from_raw_data(st1, buffer) ==
    LET st2 == St2_from(buffer[8])
    IN [ hx |-> i16_from_le_bytes(buffer[1], buffer[2]),
         hy |-> i16_from_le_bytes(buffer[3], buffer[4]),
         hz |-> i16_from_le_bytes(buffer[5], buffer[6]),
         flags |-> BitOr(IF contains(st1, St1_DOR)
                           THEN MeasurementFlags_OVERRUN
                           ELSE MeasurementFlags_empty,
                         IF contains(st2, St2_HOFL)
                           THEN MeasurementFlags_OVERFLOW
                           ELSE MeasurementFlags_empty) ]

\* i32 arithmetic: i32::from(i16) and the product.  The integers of the
\* checker are 32 bits wide as i32 is: a product outside the i32 range stops
\* the evaluation with an overflow error, as the overflow check of the source
\* build does.
i32_from_i16(x) == x
i32_mul(a, b) == a * b
\* a product kept to 16 bits
i16_mul(a, b) == ((a * b + 32768) % 65536) - 32768

Measurement_x_nanoteslas(self) == i32_mul(i32_from_i16(self.hx), SENSITIVITY_NT_PER_BIT)
\* y_nanoteslas computed in 16 bits
Measurement_y_nanoteslas_i16(self) == i16_mul(self.hy, SENSITIVITY_NT_PER_BIT)
Measurement_y_nanoteslas(self) == i32_mul(i32_from_i16(self.hy), SENSITIVITY_NT_PER_BIT)
Measurement_z_nanoteslas(self) == i32_mul(i32_from_i16(self.hz), SENSITIVITY_NT_PER_BIT)

Measurement_overrun(m) == contains(m.flags, MeasurementFlags_OVERRUN)
Measurement_overflow(m) == contains(m.flags, MeasurementFlags_OVERFLOW)

\* a half-open range lo..hi in place of lo..=hi
Range_contains(lo, hi, x) == lo <= x /\ x < hi

\* (lo..=hi).contains(&x)
RangeInclusive_contains(lo, hi, x) == lo <= x /\ x <= hi

SelfTestResult_from(measurement) ==
    LET is_valid == /\ RangeInclusive_contains(-200, 200, measurement.hx)
                    /\ RangeInclusive_contains(-200, 200, measurement.hy)
                    /\ RangeInclusive_contains(-1000, -200, measurement.hz)
    IN [measurement |-> measurement, is_valid |-> is_valid]

(***************************************************************************)
(* Values exchanged between functions: Result<T, I::Error> and Option<T>   *)
(***************************************************************************)
Unit == <<>>
NoErr == "NoErr"
Ok(x) == [ok |-> TRUE, val |-> x, err |-> NoErr]
Err(e) == [ok |-> FALSE, val |-> Unit, err |-> e]
Some(x) == [some |-> TRUE, value |-> x]
None == [some |-> FALSE, value |-> Unit]
NoVal == [ok |-> FALSE, val |-> Unit, err |-> "NoVal"]
NoResult == [ok |-> FALSE, val |-> Unit, err |-> "NoResult"]

(***************************************************************************)
(* Primitive operations of the external collaborators: the I2c transport   *)
(* (write, write_read, read) and the DelayNs provider (delay_us)           *)
(***************************************************************************)
NoReq == [kind |-> "none", addr |-> 0, bytes |-> <<>>, len |-> 0, us |-> 0]
I2cWrite(address, bytes) ==
    [kind |-> "write", addr |-> address, bytes |-> bytes, len |-> 0, us |-> 0]
I2cWriteRead(address, bytes, len) ==
    [kind |-> "write_read", addr |-> address, bytes |-> bytes, len |-> len, us |-> 0]
I2cRead(address, len) ==
    [kind |-> "read", addr |-> address, bytes |-> <<>>, len |-> len, us |-> 0]
DelayUs(us) ==
    [kind |-> "delay", addr |-> 0, bytes |-> <<>>, len |-> 0, us |-> us]

(***************************************************************************)
(* Frames and the next step of a function body                             *)
(***************************************************************************)
NewFrame(fn, arg) == [fn |-> fn, pc |-> 0, arg |-> arg, st1 |-> 0]
NoFrame == NewFrame("none", Unit)

\* call fn(arg) and resume this frame at pc with the value it returns
Call(fn, arg, fr, pc) ==
    [t |-> "call", fr |-> [fr EXCEPT !.pc = pc], callee |-> NewFrame(fn, arg),
     req |-> NoReq, val |-> NoVal]
\* issue the primitive req and resume this frame at pc with its outcome
Prim(req, fr, pc) ==
    [t |-> "prim", fr |-> [fr EXCEPT !.pc = pc], callee |-> NoFrame,
     req |-> req, val |-> NoVal]
Return(val) ==
    [t |-> "ret", fr |-> NoFrame, callee |-> NoFrame, req |-> NoReq, val |-> val]

(***************************************************************************)
(* lib.rs, mod blocking                                                    *)
(* In every body, v is the value handed back by the call or primitive      *)
(* issued at the previous position; `?` returns Err(v.err) when v is Err.  *)
(***************************************************************************)
\* read_register8 that issues the read again when the transport fails
blocking_read_register8_retry(fr, v) ==
    CASE fr.pc = 0 ->
           Prim(I2cWriteRead(I2C_ADDRESS,
                             <<u8_from_RegisterAddress(Register8_ADDRESS(fr.arg))>>, 1),
                fr, 1)
      [] fr.pc = 1 ->
           IF ~v.ok
           THEN Prim(I2cWriteRead(I2C_ADDRESS,
                                  <<u8_from_RegisterAddress(Register8_ADDRESS(fr.arg))>>, 1),
                     fr, 1)
           ELSE Return(Ok(Register8_from(fr.arg, v.val[1])))

\* fr.arg = R, the register type
blocking_read_register8(fr, v) ==
    CASE fr.pc = 0 ->
           Prim(I2cWriteRead(I2C_ADDRESS,
                             <<u8_from_RegisterAddress(Register8_ADDRESS(fr.arg))>>, 1),
                fr, 1)
      [] fr.pc = 1 ->
           IF ~v.ok THEN Return(Err(v.err))
           ELSE Return(Ok(Register8_from(fr.arg, v.val[1])))

\* write_register8 that selects the address after the register's own
\* fr.arg = [R |-> register type, register |-> value]
blocking_write_register8_next_address(fr, v) ==
    CASE fr.pc = 0 ->
           LET buffer == <<u8_from_RegisterAddress(Register8_ADDRESS(fr.arg.R)) + 1,
                           Register8_into(fr.arg.R, fr.arg.register)>>
           IN Prim(I2cWrite(I2C_ADDRESS, buffer), fr, 1)
      [] fr.pc = 1 -> Return(IF v.ok THEN Ok(Unit) ELSE Err(v.err))

\* fr.arg = [R |-> register type, register |-> value]
blocking_write_register8(fr, v) ==
    CASE fr.pc = 0 ->
           LET buffer == <<u8_from_RegisterAddress(Register8_ADDRESS(fr.arg.R)),
                           Register8_into(fr.arg.R, fr.arg.register)>>
           IN Prim(I2cWrite(I2C_ADDRESS, buffer), fr, 1)
      [] fr.pc = 1 -> Return(IF v.ok THEN Ok(Unit) ELSE Err(v.err))

\* poll_measurement that accumulates the status-1 bits of all its reads
blocking_poll_measurement_sticky_status(fr, v) ==
    CASE fr.pc = 0 -> Call("read_register8", "St1", fr, 1)
      [] fr.pc = 1 ->
           IF ~v.ok THEN Return(Err(v.err))
           ELSE LET st1 == v.val
                    fr1 == [fr EXCEPT !.st1 = BitOr(fr.st1, st1)]
                IN IF contains(st1, St1_DRDY)
                   THEN Prim(I2cRead(I2C_ADDRESS, 8), fr1, 3)
                   ELSE Prim(DelayUs(fr.arg), fr1, 2)
      [] fr.pc = 2 -> Call("read_register8", "St1", fr, 1)
      [] fr.pc = 3 ->
           IF ~v.ok THEN Return(Err(v.err))
           ELSE Return(Ok(Measurement_from_raw_data(fr.st1, v.val)))

\* poll_measurement that waits the mode-set time instead of poll_interval_us
blocking_poll_measurement_fixed_wait(fr, v) ==
    CASE fr.pc = 0 -> Call("read_register8", "St1", fr, 1)
      [] fr.pc = 1 ->
           IF ~v.ok THEN Return(Err(v.err))
           ELSE LET st1 == v.val
                    fr1 == [fr EXCEPT !.st1 = st1]
                IN IF contains(st1, St1_DRDY)
                   THEN Prim(I2cRead(I2C_ADDRESS, 8), fr1, 3)
                   ELSE Prim(DelayUs(MODE_SET_WAIT_TIME_US), fr1, 2)
      [] fr.pc = 2 -> Call("read_register8", "St1", fr, 1)
      [] fr.pc = 3 ->
           IF ~v.ok THEN Return(Err(v.err))
           ELSE Return(Ok(Measurement_from_raw_data(fr.st1, v.val)))

\* fr.arg = poll_interval_us
blocking_poll_measurement(fr, v) ==
    CASE fr.pc = 0 -> Call("read_register8", "St1", fr, 1)
      [] fr.pc = 1 ->
           IF ~v.ok THEN Return(Err(v.err))
           ELSE LET st1 == v.val
                    fr1 == [fr EXCEPT !.st1 = st1]
                IN IF contains(st1, St1_DRDY)
                   THEN Prim(I2cRead(I2C_ADDRESS, 8), fr1, 3)
                   ELSE Prim(DelayUs(fr.arg), fr1, 2)
      [] fr.pc = 2 -> Call("read_register8", "St1", fr, 1)
      [] fr.pc = 3 ->
           IF ~v.ok THEN Return(Err(v.err))
           ELSE Return(Ok(Measurement_from_raw_data(fr.st1, v.val)))

\* read_measurement that reads the device id between the status-1 read and
\* the block read
blocking_read_measurement_after_wia2(fr, v) ==
    CASE fr.pc = 0 -> Call("read_register8", "St1", fr, 1)
      [] fr.pc = 1 ->
           IF ~v.ok THEN Return(Err(v.err))
           ELSE LET st1 == v.val
                    fr1 == [fr EXCEPT !.st1 = st1]
                IN IF contains(st1, St1_DRDY)
                   THEN Call("read_register8", "Wia2", fr1, 3)
                   ELSE Return(Ok(None))
      [] fr.pc = 3 ->
           IF ~v.ok THEN Return(Err(v.err))
           ELSE Prim(I2cRead(I2C_ADDRESS, 8), fr, 2)
      [] fr.pc = 2 ->
           IF ~v.ok THEN Return(Err(v.err))
           ELSE Return(Ok(Some(Measurement_from_raw_data(fr.st1, v.val))))

\* read_measurement that waits and retries when data is not ready
blocking_read_measurement_retry(fr, v) ==
    CASE fr.pc = 0 -> Call("read_register8", "St1", fr, 1)
      [] fr.pc = 1 ->
           IF ~v.ok THEN Return(Err(v.err))
           ELSE LET st1 == v.val
                    fr1 == [fr EXCEPT !.st1 = st1]
                IN IF contains(st1, St1_DRDY)
                   THEN Prim(I2cRead(I2C_ADDRESS, 8), fr1, 2)
                   ELSE Prim(DelayUs(MODE_SET_WAIT_TIME_US), fr1, 0)
      [] fr.pc = 2 ->
           IF ~v.ok THEN Return(Err(v.err))
           ELSE Return(Ok(Some(Measurement_from_raw_data(fr.st1, v.val))))

blocking_read_measurement(fr, v) ==
    CASE fr.pc = 0 -> Call("read_register8", "St1", fr, 1)
      [] fr.pc = 1 ->
           IF ~v.ok THEN Return(Err(v.err))
           ELSE LET st1 == v.val
                    fr1 == [fr EXCEPT !.st1 = st1]
                IN IF contains(st1, St1_DRDY)
                   THEN Prim(I2cRead(I2C_ADDRESS, 8), fr1, 2)
                   ELSE Return(Ok(None))
      [] fr.pc = 2 ->
           IF ~v.ok THEN Return(Err(v.err))
           ELSE Return(Ok(Some(Measurement_from_raw_data(fr.st1, v.val))))

\* switch_mode without the settling wait between the two writes
blocking_switch_mode_no_wait(fr, v) ==
    CASE fr.pc = 0 ->
           Call("write_register8",
                [R |-> "Cntl2", register |-> Cntl2_from_Mode("PowerDown")], fr, 1)
      [] fr.pc = 1 ->
           IF ~v.ok THEN Return(Err(v.err))
           ELSE Call("write_register8",
                     [R |-> "Cntl2", register |-> Cntl2_from_Mode(fr.arg)], fr, 3)
      [] fr.pc = 3 -> Return(IF v.ok THEN Ok(Unit) ELSE Err(v.err))

\* fr.arg = target_mode
blocking_switch_mode(fr, v) ==
    CASE fr.pc = 0 ->
           Call("write_register8",
                [R |-> "Cntl2", register |-> Cntl2_from_Mode("PowerDown")], fr, 1)
      [] fr.pc = 1 ->
           IF ~v.ok THEN Return(Err(v.err))
           ELSE Prim(DelayUs(MODE_SET_WAIT_TIME_US), fr, 2)
      [] fr.pc = 2 ->
           Call("write_register8",
                [R |-> "Cntl2", register |-> Cntl2_from_Mode(fr.arg)], fr, 3)
      [] fr.pc = 3 -> Return(IF v.ok THEN Ok(Unit) ELSE Err(v.err))

blocking_self_test(fr, v) ==
    CASE fr.pc = 0 -> Call("switch_mode", "SelfTest", fr, 1)
      [] fr.pc = 1 ->
           IF ~v.ok THEN Return(Err(v.err))
           ELSE Call("poll_measurement", 10, fr, 2)
      [] fr.pc = 2 ->
           IF ~v.ok THEN Return(Err(v.err))
           ELSE Return(Ok(SelfTestResult_from(v.val)))

\* soft_reset that reads control-3 back before the first wait
blocking_soft_reset_read_first(fr, v) ==
    CASE fr.pc = 0 ->
           Call("write_register8", [R |-> "Cntl3", register |-> Cntl3_SRST], fr, 1)
      [] fr.pc = 1 ->
           IF ~v.ok THEN Return(Err(v.err))
           ELSE Call("read_register8", "Cntl3", fr, 3)
      [] fr.pc = 2 -> Call("read_register8", "Cntl3", fr, 3)
      [] fr.pc = 3 ->
           IF ~v.ok THEN Return(Err(v.err))
           ELSE LET cntl3 == v.val
                IN IF ~contains(cntl3, Cntl3_SRST)
                   THEN Return(Ok(Unit))
                   ELSE Prim(DelayUs(MODE_SET_WAIT_TIME_US), fr, 2)

blocking_soft_reset(fr, v) ==
    CASE fr.pc = 0 ->
           Call("write_register8", [R |-> "Cntl3", register |-> Cntl3_SRST], fr, 1)
      [] fr.pc = 1 ->
           IF ~v.ok THEN Return(Err(v.err))
           ELSE Prim(DelayUs(MODE_SET_WAIT_TIME_US), fr, 2)
      [] fr.pc = 2 -> Call("read_register8", "Cntl3", fr, 3)
      [] fr.pc = 3 ->
           IF ~v.ok THEN Return(Err(v.err))
           ELSE LET cntl3 == v.val
                IN IF ~contains(cntl3, Cntl3_SRST)
                   THEN Return(Ok(Unit))
                   ELSE Prim(DelayUs(MODE_SET_WAIT_TIME_US), fr, 2)

\* who_i_am that addresses the neighbouring bus address
blocking_who_i_am_other_address(fr, v) ==
    CASE fr.pc = 0 ->
           Prim(I2cWriteRead(I2C_ADDRESS + 1, <<u8_from_RegisterAddress("Wia1")>>, 2),
                fr, 1)
      [] fr.pc = 1 ->
           IF ~v.ok THEN Return(Err(v.err))
           ELSE LET buffer == v.val
                IN Return(Ok([ company_id |-> transparent_reg8_from(buffer[1]),
                               device_id |-> transparent_reg8_from(buffer[2]) ]))

blocking_who_i_am(fr, v) ==
    CASE fr.pc = 0 ->
           Prim(I2cWriteRead(I2C_ADDRESS, <<u8_from_RegisterAddress("Wia1")>>, 2), fr, 1)
      [] fr.pc = 1 ->
           IF ~v.ok THEN Return(Err(v.err))
           ELSE LET buffer == v.val
                IN Return(Ok([ company_id |-> transparent_reg8_from(buffer[1]),
                               device_id |-> transparent_reg8_from(buffer[2]) ]))

\* fr.arg = R, the 16-bit register type
blocking_read_register16(fr, v) ==
    CASE fr.pc = 0 ->
           Prim(I2cWriteRead(I2C_ADDRESS,
                             <<u8_from_RegisterAddress(Register16_ADDRESS(fr.arg))>>, 2),
                fr, 1)
      [] fr.pc = 1 ->
           IF ~v.ok THEN Return(Err(v.err))
           ELSE LET buffer == v.val
                IN Return(Ok(Register16_from(fr.arg,
                                             i16_from_le_bytes(buffer[1], buffer[2]))))

\* dump_registers that starts the block at status-1
blocking_dump_registers_from_st1(fr, v) ==
    CASE fr.pc = 0 ->
           Prim(I2cWriteRead(I2C_ADDRESS, <<u8_from_RegisterAddress("St1")>>, 16), fr, 1)
      [] fr.pc = 1 ->
           IF ~v.ok THEN Return(Err(v.err))
           ELSE Return(Ok(RegisterDump_from_raw_data(v.val)))

blocking_dump_registers(fr, v) ==
    CASE fr.pc = 0 ->
           Prim(I2cWriteRead(I2C_ADDRESS, <<u8_from_RegisterAddress("Wia1")>>, 16), fr, 1)
      [] fr.pc = 1 ->
           IF ~v.ok THEN Return(Err(v.err))
           ELSE Return(Ok(RegisterDump_from_raw_data(v.val)))

blocking_Ak09916(fr, v) ==
    CASE fr.fn = "read_register8" -> blocking_read_register8(fr, v)
      [] fr.fn = "write_register8" -> blocking_write_register8(fr, v)
      [] fr.fn = "poll_measurement" -> blocking_poll_measurement(fr, v)
      [] fr.fn = "read_measurement" -> blocking_read_measurement(fr, v)
      [] fr.fn = "switch_mode" -> blocking_switch_mode(fr, v)
      [] fr.fn = "self_test" -> blocking_self_test(fr, v)
      [] fr.fn = "soft_reset" -> blocking_soft_reset(fr, v)
      [] fr.fn = "who_i_am" -> blocking_who_i_am(fr, v)
      [] fr.fn = "read_register16" -> blocking_read_register16(fr, v)
      [] fr.fn = "dump_registers" -> blocking_dump_registers(fr, v)

(***************************************************************************)
(* lib.rs, mod asynch                                                      *)
(* The same bodies, with every bus operation and every wait awaited.        *)
(***************************************************************************)
\* fr.arg = R, the register type
asynch_read_register8(fr, v) ==
    CASE fr.pc = 0 ->
           Prim(I2cWriteRead(I2C_ADDRESS,
                             <<u8_from_RegisterAddress(Register8_ADDRESS(fr.arg))>>, 1),
                fr, 1)
      [] fr.pc = 1 ->
           IF ~v.ok THEN Return(Err(v.err))
           ELSE Return(Ok(Register8_from(fr.arg, v.val[1])))

\* fr.arg = [R |-> register type, register |-> value]
asynch_write_register8(fr, v) ==
    CASE fr.pc = 0 ->
           LET buffer == <<u8_from_RegisterAddress(Register8_ADDRESS(fr.arg.R)),
                           Register8_into(fr.arg.R, fr.arg.register)>>
           IN Prim(I2cWrite(I2C_ADDRESS, buffer), fr, 1)
      [] fr.pc = 1 -> Return(IF v.ok THEN Ok(Unit) ELSE Err(v.err))

\* poll_measurement that reads status-1 again at once, without waiting
asynch_poll_measurement_busy(fr, v) ==
    CASE fr.pc = 0 -> Call("read_register8", "St1", fr, 1)
      [] fr.pc = 1 ->
           IF ~v.ok THEN Return(Err(v.err))
           ELSE LET st1 == v.val
                    fr1 == [fr EXCEPT !.st1 = st1]
                IN IF contains(st1, St1_DRDY)
                   THEN Prim(I2cRead(I2C_ADDRESS, 8), fr1, 3)
                   ELSE Call("read_register8", "St1", fr, 1)
      [] fr.pc = 3 ->
           IF ~v.ok THEN Return(Err(v.err))
           ELSE Return(Ok(Measurement_from_raw_data(fr.st1, v.val)))

\* fr.arg = poll_interval_us
asynch_poll_measurement(fr, v) ==
    CASE fr.pc = 0 -> Call("read_register8", "St1", fr, 1)
      [] fr.pc = 1 ->
           IF ~v.ok THEN Return(Err(v.err))
           ELSE LET st1 == v.val
                    fr1 == [fr EXCEPT !.st1 = st1]
                IN IF contains(st1, St1_DRDY)
                   THEN Prim(I2cRead(I2C_ADDRESS, 8), fr1, 3)
                   ELSE Prim(DelayUs(fr.arg), fr1, 2)
      [] fr.pc = 2 -> Call("read_register8", "St1", fr, 1)
      [] fr.pc = 3 ->
           IF ~v.ok THEN Return(Err(v.err))
           ELSE Return(Ok(Measurement_from_raw_data(fr.st1, v.val)))

\* read_measurement that fetches the block with a write-then-read selecting HXL
asynch_read_measurement_select_block(fr, v) ==
    CASE fr.pc = 0 -> Call("read_register8", "St1", fr, 1)
      [] fr.pc = 1 ->
           IF ~v.ok THEN Return(Err(v.err))
           ELSE LET st1 == v.val
                    fr1 == [fr EXCEPT !.st1 = st1]
                IN IF contains(st1, St1_DRDY)
                   THEN Prim(I2cWriteRead(I2C_ADDRESS,
                                          <<u8_from_RegisterAddress("Hxl")>>, 8), fr1, 2)
                   ELSE Return(Ok(None))
      [] fr.pc = 2 ->
           IF ~v.ok THEN Return(Err(v.err))
           ELSE Return(Ok(Some(Measurement_from_raw_data(fr.st1, v.val))))

asynch_read_measurement(fr, v) ==
    CASE fr.pc = 0 -> Call("read_register8", "St1", fr, 1)
      [] fr.pc = 1 ->
           IF ~v.ok THEN Return(Err(v.err))
           ELSE LET st1 == v.val
                    fr1 == [fr EXCEPT !.st1 = st1]
                IN IF contains(st1, St1_DRDY)
                   THEN Prim(I2cRead(I2C_ADDRESS, 8), fr1, 2)
                   ELSE Return(Ok(None))
      [] fr.pc = 2 ->
           IF ~v.ok THEN Return(Err(v.err))
           ELSE Return(Ok(Some(Measurement_from_raw_data(fr.st1, v.val))))

\* switch_mode that drops the `?` on the power-down write
asynch_switch_mode_ignore_error(fr, v) ==
    CASE fr.pc = 0 ->
           Call("write_register8",
                [R |-> "Cntl2", register |-> Cntl2_from_Mode("PowerDown")], fr, 1)
      [] fr.pc = 1 -> Prim(DelayUs(MODE_SET_WAIT_TIME_US), fr, 2)
      [] fr.pc = 2 ->
           Call("write_register8",
                [R |-> "Cntl2", register |-> Cntl2_from_Mode(fr.arg)], fr, 3)
      [] fr.pc = 3 -> Return(IF v.ok THEN Ok(Unit) ELSE Err(v.err))

\* fr.arg = target_mode
asynch_switch_mode(fr, v) ==
    CASE fr.pc = 0 ->
           Call("write_register8",
                [R |-> "Cntl2", register |-> Cntl2_from_Mode("PowerDown")], fr, 1)
      [] fr.pc = 1 ->
           IF ~v.ok THEN Return(Err(v.err))
           ELSE Prim(DelayUs(MODE_SET_WAIT_TIME_US), fr, 2)
      [] fr.pc = 2 ->
           Call("write_register8",
                [R |-> "Cntl2", register |-> Cntl2_from_Mode(fr.arg)], fr, 3)
      [] fr.pc = 3 -> Return(IF v.ok THEN Ok(Unit) ELSE Err(v.err))

\* self_test that polls with the mode-set time as its interval
asynch_self_test_slow_poll(fr, v) ==
    CASE fr.pc = 0 -> Call("switch_mode", "SelfTest", fr, 1)
      [] fr.pc = 1 ->
           IF ~v.ok THEN Return(Err(v.err))
           ELSE Call("poll_measurement", MODE_SET_WAIT_TIME_US, fr, 2)
      [] fr.pc = 2 ->
           IF ~v.ok THEN Return(Err(v.err))
           ELSE Return(Ok(SelfTestResult_from(v.val)))

asynch_self_test(fr, v) ==
    CASE fr.pc = 0 -> Call("switch_mode", "SelfTest", fr, 1)
      [] fr.pc = 1 ->
           IF ~v.ok THEN Return(Err(v.err))
           ELSE Call("poll_measurement", 10, fr, 2)
      [] fr.pc = 2 ->
           IF ~v.ok THEN Return(Err(v.err))
           ELSE Return(Ok(SelfTestResult_from(v.val)))

\* soft_reset that returns after its first read-back, whatever the reset bit
asynch_soft_reset_single_check(fr, v) ==
    CASE fr.pc = 0 ->
           Call("write_register8", [R |-> "Cntl3", register |-> Cntl3_SRST], fr, 1)
      [] fr.pc = 1 ->
           IF ~v.ok THEN Return(Err(v.err))
           ELSE Prim(DelayUs(MODE_SET_WAIT_TIME_US), fr, 2)
      [] fr.pc = 2 -> Call("read_register8", "Cntl3", fr, 3)
      [] fr.pc = 3 ->
           IF ~v.ok THEN Return(Err(v.err))
           ELSE Return(Ok(Unit))

asynch_soft_reset(fr, v) ==
    CASE fr.pc = 0 ->
           Call("write_register8", [R |-> "Cntl3", register |-> Cntl3_SRST], fr, 1)
      [] fr.pc = 1 ->
           IF ~v.ok THEN Return(Err(v.err))
           ELSE Prim(DelayUs(MODE_SET_WAIT_TIME_US), fr, 2)
      [] fr.pc = 2 -> Call("read_register8", "Cntl3", fr, 3)
      [] fr.pc = 3 ->
           IF ~v.ok THEN Return(Err(v.err))
           ELSE LET cntl3 == v.val
                IN IF ~contains(cntl3, Cntl3_SRST)
                   THEN Return(Ok(Unit))
                   ELSE Prim(DelayUs(MODE_SET_WAIT_TIME_US), fr, 2)

asynch_who_i_am(fr, v) ==
    CASE fr.pc = 0 ->
           Prim(I2cWriteRead(I2C_ADDRESS, <<u8_from_RegisterAddress("Wia1")>>, 2), fr, 1)
      [] fr.pc = 1 ->
           IF ~v.ok THEN Return(Err(v.err))
           ELSE LET buffer == v.val
                IN Return(Ok([ company_id |-> transparent_reg8_from(buffer[1]),
                               device_id |-> transparent_reg8_from(buffer[2]) ]))

\* fr.arg = R, the 16-bit register type
asynch_read_register16(fr, v) ==
    CASE fr.pc = 0 ->
           Prim(I2cWriteRead(I2C_ADDRESS,
                             <<u8_from_RegisterAddress(Register16_ADDRESS(fr.arg))>>, 2),
                fr, 1)
      [] fr.pc = 1 ->
           IF ~v.ok THEN Return(Err(v.err))
           ELSE LET buffer == v.val
                IN Return(Ok(Register16_from(fr.arg,
                                             i16_from_le_bytes(buffer[1], buffer[2]))))

asynch_dump_registers(fr, v) ==
    CASE fr.pc = 0 ->
           Prim(I2cWriteRead(I2C_ADDRESS, <<u8_from_RegisterAddress("Wia1")>>, 16), fr, 1)
      [] fr.pc = 1 ->
           IF ~v.ok THEN Return(Err(v.err))
           ELSE Return(Ok(RegisterDump_from_raw_data(v.val)))

asynch_Ak09916(fr, v) ==
    CASE fr.fn = "read_register8" -> asynch_read_register8(fr, v)
      [] fr.fn = "write_register8" -> asynch_write_register8(fr, v)
      [] fr.fn = "poll_measurement" -> asynch_poll_measurement(fr, v)
      [] fr.fn = "read_measurement" -> asynch_read_measurement(fr, v)
      [] fr.fn = "switch_mode" -> asynch_switch_mode(fr, v)
      [] fr.fn = "self_test" -> asynch_self_test(fr, v)
      [] fr.fn = "soft_reset" -> asynch_soft_reset(fr, v)
      [] fr.fn = "who_i_am" -> asynch_who_i_am(fr, v)
      [] fr.fn = "read_register16" -> asynch_read_register16(fr, v)
      [] fr.fn = "dump_registers" -> asynch_dump_registers(fr, v)

(***************************************************************************)
(* Running the call stack up to the next primitive operation               *)
(***************************************************************************)
Ak09916(vt, fr, v) ==
    IF vt = "blocking" THEN blocking_Ak09916(fr, v) ELSE asynch_Ak09916(fr, v)

\* Resume the innermost frame of frs with the value v and follow calls and
\* returns until a primitive is issued or the outermost function returns.
RECURSIVE Run(_, _, _)
\* a is the step the innermost frame took; rest is the stack below it
Step(vt, rest, a) ==
    CASE a.t = "prim" ->
           [frames |-> Append(rest, a.fr), pending |-> a.req, result |-> NoResult]
      [] a.t = "call" -> Run(vt, Append(Append(rest, a.fr), a.callee), NoVal)
      [] a.t = "ret" -> Run(vt, rest, a.val)
Run(vt, frs, v) ==
    IF frs = <<>>
    THEN [frames |-> <<>>, pending |-> NoReq, result |-> v]
    ELSE Step(vt, SubSeq(frs, 1, Len(frs) - 1), Ak09916(vt, frs[Len(frs)], v))

(***************************************************************************)
(* The device and the bus, as seen by the driver: what a primitive         *)
(* operation may hand back                                                 *)
(***************************************************************************)
\* opaque transport errors (I::Error)
Errors == {"E1", "E2"}

\* bytes a one-byte register read may return
RegBytes == {0, 1, 2, 3, 252, 255}

\* i16::to_le_bytes, to build the blocks the device returns
i16_to_le_bytes(x) ==
    LET u == IF x < 0 THEN x + 65536 ELSE x IN <<u % 256, u \div 256>>

Block(hx, hy, hz, tmps, st2) ==
    i16_to_le_bytes(hx) \o i16_to_le_bytes(hy) \o i16_to_le_bytes(hz) \o <<tmps, st2>>

\* 8-byte blocks a block read may return
Blocks ==
    { Block(100, -50, -800, 0, 8),
      Block(300, 0, -500, 0, 247),
      Block(200, -200, -200, 255, 255),
      Block(-201, 0, -1000, 8, 112) }

\* 2-byte buffers (identity registers, 16-bit axis registers)
Pairs == {<<72, 9>>, <<0, 0>>, <<56, 255>>, <<255, 127>>}

\* 16-byte buffers a register dump may read
Dumps ==
    { <<72, 9, 0, 0, 1, 100, 0, 206, 255, 224, 252, 0, 8, 0, 2, 0>>,
      <<72, 9, 170, 85, 3, 100, 0, 206, 255, 224, 252, 119, 120, 255, 31, 1>>,
      <<0, 255, 0, 0, 252, 255, 127, 0, 128, 56, 255, 0, 247, 0, 240, 254>> }

ReadData(len) ==
    CASE len = 1 -> {<<b>> : b \in RegBytes}
      [] len = 2 -> Pairs
      [] len = 8 -> Blocks
      [] len = 16 -> Dumps

\* register values a caller may hand to write_register8::<R>
WriteValues(R) ==
    {Register8_from(R, b) : b \in {255}}
        \cup (IF R = "Cntl2"
              THEN {ModeRegister_Other(2), ModeRegister_Other(200)}
              ELSE {})

Resps(req) ==
    CASE req.kind = "write" -> {Ok(Unit)} \cup {Err(e) : e \in Errors}
      [] req.kind = "write_read" ->
           {Ok(d) : d \in ReadData(req.len)} \cup {Err(e) : e \in Errors}
      [] req.kind = "read" ->
           {Ok(d) : d \in ReadData(req.len)} \cup {Err(e) : e \in Errors}
      [] req.kind = "delay" -> {Ok(Unit)}

(***************************************************************************)
(* State machine                                                           *)
(***************************************************************************)
Variants == {"blocking", "asynch"}
PollIntervals == {0, 7, 10000}
NoCall == [fn |-> "none", arg |-> Unit]
NoDec == [fn |-> "none"]

Idle == frames = <<>>

Init ==
    /\ variant \in Variants
    /\ call = NoCall
    /\ frames = <<>>
    /\ pending = NoReq
    /\ trace = <<>>
    /\ result = NoResult
    /\ dec_in = NoDec
    /\ dec_out = NoDec

\* the driver continues from the stack, the primitive and the result in s
Resume(s) ==
    /\ frames' = s.frames
    /\ pending' = s.pending
    /\ result' = s.result

\* the caller's invocation of the top-level function fn(arg) runs up to the
\* first primitive operation
Invoke(fn, arg) ==
    /\ Resume(Run(variant, <<NewFrame(fn, arg)>>, NoVal))
    /\ call' = [fn |-> fn, arg |-> arg]
    /\ trace' = <<>>
    /\ UNCHANGED <<variant, dec_in, dec_out>>

\* the driver is borrowed mutably by each call: a call starts only when no
\* other call is in progress
Call_switch_mode ==
    /\ Idle
    /\ \E target_mode \in DOMAIN Mode : Invoke("switch_mode", target_mode)
Call_poll_measurement ==
    /\ Idle
    /\ \E poll_interval_us \in PollIntervals :
          Invoke("poll_measurement", poll_interval_us)
Call_read_measurement == Idle /\ Invoke("read_measurement", Unit)
Call_self_test == Idle /\ Invoke("self_test", Unit)
Call_soft_reset == Idle /\ Invoke("soft_reset", Unit)
Call_who_i_am == Idle /\ Invoke("who_i_am", Unit)
Call_dump_registers == Idle /\ Invoke("dump_registers", Unit)
Call_read_register8 ==
    /\ Idle
    /\ \E R \in Register8Types : Invoke("read_register8", R)
Call_read_register16 ==
    /\ Idle
    /\ \E R \in Register16Types : Invoke("read_register16", R)
Call_write_register8 ==
    /\ Idle
    /\ \E R \in Register8Types : \E register \in WriteValues(R) :
          Invoke("write_register8", [R |-> R, register |-> register])

\* the primitive in flight completes with the outcome r
Complete(r) ==
    /\ Len(trace) < MaxTrace
    /\ trace' = Append(trace, [req |-> pending, resp |-> r])
    /\ Resume(Run(variant, frames, r))
    /\ UNCHANGED <<variant, call, dec_in, dec_out>>

I2c_write == pending.kind = "write" /\ \E r \in Resps(pending) : Complete(r)
I2c_write_read == pending.kind = "write_read" /\ \E r \in Resps(pending) : Complete(r)
I2c_read == pending.kind = "read" /\ \E r \in Resps(pending) : Complete(r)
Delay_delay_us == pending.kind = "delay" /\ \E r \in Resps(pending) : Complete(r)

Next ==
    \/ Call_switch_mode
    \/ Call_poll_measurement
    \/ Call_read_measurement
    \/ Call_self_test
    \/ Call_soft_reset
    \/ Call_who_i_am
    \/ Call_dump_registers
    \/ Call_read_register8
    \/ Call_read_register16
    \/ Call_write_register8
    \/ I2c_write
    \/ I2c_write_read
    \/ I2c_read
    \/ Delay_delay_us

Spec == Init /\ [][Next]_vars

(***************************************************************************)
(* Decoder specification: the pure functions applied to drawn inputs       *)
(***************************************************************************)
DecStatusBytes == {0, 1, 2, 3, 253, 255}
DecAxisValues == {-32768, -800, -50, 100, 255, 32767}
DecTmpsBytes == {0, 255}
DecSt2Bytes == {0, 8, 16, 112, 119, 128, 247, 255}
DecBlocks ==
    { Block(hx, hy, hz, tmps, st2) :
        hx \in DecAxisValues, hy \in DecAxisValues, hz \in DecAxisValues,
        tmps \in DecTmpsBytes, st2 \in DecSt2Bytes }

DecHxHy == {-32768, -201, -200, 0, 200, 201, 300, 32767}
DecHz == {-32768, -1001, -1000, -500, -200, -199, -100, 0, 32767}
DecMeasurements ==
    [hx : DecHxHy, hy : DecHxHy, hz : DecHz, flags : {0, 10}]

NoMeasurement == [hx |-> 0, hy |-> 0, hz |-> 0, flags |-> 0]

\* 16-byte blocks: the dump fixtures with one byte replaced
DecDumpBytes == {0, 85, 255}
DecDumps ==
    { [d EXCEPT ![k] = x] : d \in Dumps, k \in 1..16, x \in DecDumpBytes }

\* every byte value, and every raw count on each axis
U8 == 0..255
I16 == -32768..32767
\* a measurement in which each axis runs through all counts as v does
DecCounts(v) ==
    [hx |-> v, hy |-> -1 - v, hz |-> IF v < 0 THEN v + 32768 ELSE v - 32768,
     flags |-> 0]

\* an argument of one of the pure functions: fn names the function, and the
\* field for its parameter holds the argument (the other fields are unused)
NoRegister == [tag |-> "none", mode |-> "", value |-> 0]
DecInput(fn, st1, buffer, measurement, reg, byte, register) ==
    [fn |-> fn, st1 |-> st1, buffer |-> buffer, measurement |-> measurement,
     reg |-> reg, byte |-> byte, register |-> register]

\* mode-register values: every recognized mode and every opaque value
DecModeRegisters ==
    {ModeRegister_Mode(m) : m \in DOMAIN Mode} \cup {ModeRegister_Other(x) : x \in U8}

DecInputs ==
    { DecInput("from_raw_data", s, b, NoMeasurement, "", 0, NoRegister) :
        s \in DecStatusBytes, b \in DecBlocks }
    \cup
    { DecInput("SelfTestResult_from", 0, <<>>, m, "", 0, NoRegister) : m \in DecMeasurements }
    \cup
    { DecInput("RegisterDump_from_raw_data", 0, b, NoMeasurement, "", 0, NoRegister) :
        b \in DecDumps }
    \cup
    { DecInput("ModeRegister_from", 0, <<>>, NoMeasurement, "", b, NoRegister) : b \in U8 }
    \cup
    { DecInput("Register8_from_into", 0, <<>>, NoMeasurement, R, b, NoRegister) :
        R \in Register8Types, b \in U8 }
    \cup
    { DecInput("ModeRegister_into_from", 0, <<>>, NoMeasurement, "", 0, x) :
        x \in DecModeRegisters }

InitDecode ==
    /\ variant = "blocking"
    /\ call = NoCall
    /\ frames = <<>>
    /\ pending = NoReq
    /\ trace = <<>>
    /\ result = NoResult
    /\ \/ dec_in \in DecInputs
       \/ \E v \in I16 : dec_in = DecInput("nanoteslas", 0, <<>>, DecCounts(v), "", 0, NoRegister)
    /\ dec_out = NoDec

\* Measurement::from_raw_data on the decoded status-1 and the block
Apply_from_raw_data ==
    /\ dec_in.fn = "from_raw_data"
    /\ dec_out = NoDec
    /\ dec_out' = [fn |-> dec_in.fn,
                   val |-> Measurement_from_raw_data(St1_from(dec_in.st1), dec_in.buffer)]
    /\ UNCHANGED <<variant, call, frames, pending, trace, result, dec_in>>

\* SelfTestResult::from on a measurement
Apply_SelfTestResult_from ==
    /\ dec_in.fn = "SelfTestResult_from"
    /\ dec_out = NoDec
    /\ dec_out' = [fn |-> dec_in.fn, val |-> SelfTestResult_from(dec_in.measurement)]
    /\ UNCHANGED <<variant, call, frames, pending, trace, result, dec_in>>

\* RegisterDump::from_raw_data on a 16-byte block
Apply_RegisterDump_from_raw_data ==
    /\ dec_in.fn = "RegisterDump_from_raw_data"
    /\ dec_out = NoDec
    /\ dec_out' = [fn |-> dec_in.fn, val |-> RegisterDump_from_raw_data(dec_in.buffer)]
    /\ UNCHANGED <<variant, call, frames, pending, trace, result, dec_in>>

\* ModeRegister::from on a byte
Apply_ModeRegister_from ==
    /\ dec_in.fn = "ModeRegister_from"
    /\ dec_out = NoDec
    /\ dec_out' = [fn |-> dec_in.fn, val |-> ModeRegister_from(dec_in.byte)]
    /\ UNCHANGED <<variant, call, frames, pending, trace, result, dec_in>>

\* u8::from(R::from(byte)) for a Register8 type R
Apply_Register8_from_into ==
    /\ dec_in.fn = "Register8_from_into"
    /\ dec_out = NoDec
    /\ dec_out' = [fn |-> dec_in.fn,
                   val |-> Register8_into(dec_in.reg, Register8_from(dec_in.reg, dec_in.byte))]
    /\ UNCHANGED <<variant, call, frames, pending, trace, result, dec_in>>

\* x_nanoteslas, y_nanoteslas and z_nanoteslas of a measurement
Apply_nanoteslas ==
    /\ dec_in.fn = "nanoteslas"
    /\ dec_out = NoDec
    /\ dec_out' = [fn |-> dec_in.fn,
                   val |-> [x |-> Measurement_x_nanoteslas(dec_in.measurement),
                            y |-> Measurement_y_nanoteslas(dec_in.measurement),
                            z |-> Measurement_z_nanoteslas(dec_in.measurement)]]
    /\ UNCHANGED <<variant, call, frames, pending, trace, result, dec_in>>

\* ModeRegister::from(u8::from(register)) for a mode-register value
Apply_ModeRegister_into_from ==
    /\ dec_in.fn = "ModeRegister_into_from"
    /\ dec_out = NoDec
    /\ dec_out' = [fn |-> dec_in.fn,
                   val |-> ModeRegister_from(u8_from_ModeRegister(dec_in.register))]
    /\ UNCHANGED <<variant, call, frames, pending, trace, result, dec_in>>

NextDecode ==
    \/ Apply_from_raw_data
    \/ Apply_SelfTestResult_from
    \/ Apply_RegisterDump_from_raw_data
    \/ Apply_ModeRegister_from
    \/ Apply_Register8_from_into
    \/ Apply_nanoteslas
    \/ Apply_ModeRegister_into_from

SpecDecode == InitDecode /\ [][NextDecode]_vars

(***************************************************************************)
(* Unbounded-loop specification: the same calls and primitives, with the   *)
(* recorded history kept to the most recent operations so that the waiting *)
(* loops can run for any number of iterations.  A primitive in flight      *)
(* eventually completes: the transport and the delay provider return, and   *)
(* the caller runs the call to completion.                                  *)
(***************************************************************************)
\* number of most recent operations kept in trace
LiveWindow == 4

Record(tr, e) ==
    IF Len(tr) < LiveWindow THEN Append(tr, e) ELSE Append(Tail(tr), e)

CompleteLive(r) ==
    /\ trace' = Record(trace, [req |-> pending, resp |-> r])
    /\ Resume(Run(variant, frames, r))
    /\ UNCHANGED <<variant, call, dec_in, dec_out>>

Live_I2c_write == pending.kind = "write" /\ \E r \in Resps(pending) : CompleteLive(r)
Live_I2c_write_read ==
    pending.kind = "write_read" /\ \E r \in Resps(pending) : CompleteLive(r)
Live_I2c_read == pending.kind = "read" /\ \E r \in Resps(pending) : CompleteLive(r)
Live_Delay_delay_us ==
    pending.kind = "delay" /\ \E r \in Resps(pending) : CompleteLive(r)

NextLive ==
    \/ Call_poll_measurement
    \/ Call_soft_reset
    \/ Live_I2c_write
    \/ Live_I2c_write_read
    \/ Live_I2c_read
    \/ Live_Delay_delay_us

SpecLive ==
    /\ Init /\ [][NextLive]_vars
    /\ WF_vars(Live_I2c_write)
    /\ WF_vars(Live_I2c_write_read)
    /\ WF_vars(Live_I2c_read)
    /\ WF_vars(Live_Delay_delay_us)

(***************************************************************************)
(* Cancellation specification: the calls and primitives of Spec, and the   *)
(* caller of the asynch variant dropping the future of a call in progress  *)
(***************************************************************************)
\* what an abandoned call leaves in result: it never returns a value
Abandoned == [ok |-> FALSE, val |-> Unit, err |-> "Abandoned"]

\* a future that goes on running although its caller abandoned it
Abandon_detached ==
    /\ variant = "asynch"
    /\ ~Idle
    /\ result' = Abandoned
    /\ UNCHANGED <<variant, call, frames, pending, trace, dec_in, dec_out>>

\* The future of an asynch call is dropped while it is suspended at an await:
\* its frames are discarded and none of its remaining code runs (the driver
\* has no Drop implementation).
Abandon ==
    /\ variant = "asynch"
    /\ ~Idle
    /\ frames' = <<>>
    /\ pending' = NoReq
    /\ result' = Abandoned
    /\ UNCHANGED <<variant, call, trace, dec_in, dec_out>>

NextCancel ==
    \/ Next
    \/ Abandon

SpecCancel == Init /\ [][NextCancel]_vars

(***************************************************************************)
(* Properties.  The expected bus traffic is written with the literal       *)
(* addresses, bytes and durations of the specification.                    *)
(***************************************************************************)
BusWrite(bytes) ==
    [kind |-> "write", addr |-> 12, bytes |-> bytes, len |-> 0, us |-> 0]
BusWriteThenRead(bytes, len) ==
    [kind |-> "write_read", addr |-> 12, bytes |-> bytes, len |-> len, us |-> 0]
BusPlainRead(len) ==
    [kind |-> "read", addr |-> 12, bytes |-> <<>>, len |-> len, us |-> 0]
Wait(us) ==
    [kind |-> "delay", addr |-> 0, bytes |-> <<>>, len |-> 0, us |-> us]

Reqs(tr) == [i \in 1..Len(tr) |-> tr[i].req]
IsPrefix(s, t) == Len(s) <= Len(t) /\ \A i \in 1..Len(s) : s[i] = t[i]
NoTransportError == \A i \in 1..Len(trace) : trace[i].resp.ok
\* the operation that follows the i-th completed one: completed, or in flight
\* (NoReq when the call has returned)
NextOp(i) == IF i < Len(trace) THEN trace[i + 1].req ELSE pending
Bit(b, n) == (b \div (2 ^ n)) % 2

SwitchModeOps(target_mode) ==
    << BusWrite(<<49, 0>>), Wait(100), BusWrite(<<49, Mode[target_mode]>>) >>

\* C1: a switch_mode call that meets no transport error performs exactly
\* the operations write [0x31, 0x00], wait 100 us, write [0x31, target code],
\* in this order and nothing else, for every target mode and both variants;
\* it returns success exactly when all three are done.
C1_SwitchModeSequence ==
    (call.fn = "switch_mode" /\ NoTransportError) =>
        LET ops == SwitchModeOps(call.arg)
        IN /\ IsPrefix(Reqs(trace), ops)
           /\ Idle <=> Reqs(trace) = ops
           /\ Idle => result = Ok(Unit)
           /\ ~Idle => pending = ops[Len(trace) + 1]

C1_Witness ==
    /\ call.fn = "switch_mode" /\ call.arg = "PowerDown"
    /\ Idle /\ result = Ok(Unit) /\ Len(trace) = 3

\* C2: in switch_mode a transport error ends the call at once with that
\* error: either the power-down write failed and nothing else was done, or
\* the power-down write succeeded, the wait was made and the target write
\* failed, with nothing after it; the only write the bus accepted is then the
\* power-down write.
C2_SwitchModeAbort ==
    (call.fn = "switch_mode" /\ ~NoTransportError) =>
        LET n == Len(trace)
            ops == SwitchModeOps(call.arg)
        IN /\ \A i \in 1..(n - 1) : trace[i].resp.ok
           /\ Idle /\ pending = NoReq
           /\ result = Err(trace[n].resp.err)
           /\ \/ Reqs(trace) = <<ops[1]>>
              \/ Reqs(trace) = ops
           /\ \A i \in 1..n :
                (trace[i].req.kind = "write" /\ trace[i].resp.ok)
                    => trace[i].req.bytes = <<49, 0>>

C2_Witness ==
    /\ call.fn = "switch_mode" /\ call.arg = "Continuous10Hz"
    /\ Len(trace) = 3 /\ trace[1].resp.ok /\ ~trace[3].resp.ok
    /\ Idle /\ result = Err("E2")

\* the read of status-1: write-then-read of one byte selecting 0x10
StatusRead == BusWriteThenRead(<<16>>, 1)
\* a bus read, of either style, of the 8-byte measurement block
IsBlockRead(q) == q.kind \in {"read", "write_read"} /\ q.addr = 12 /\ q.len = 8

\* the measurement the specification describes for status-1 byte s and block b
Signed16(lo, hi) == IF hi >= 128 THEN lo + 256 * hi - 65536 ELSE lo + 256 * hi
RefDecode(s, b) ==
    [ hx |-> Signed16(b[1], b[2]), hy |-> Signed16(b[3], b[4]),
      hz |-> Signed16(b[5], b[6]),
      overrun |-> Bit(s, 1) = 1, overflow |-> Bit(b[8], 3) = 1 ]
SameMeasurement(m, ref) ==
    /\ m.hx = ref.hx /\ m.hy = ref.hy /\ m.hz = ref.hz
    /\ m.flags = (IF ref.overrun THEN 2 ELSE 0) + (IF ref.overflow THEN 8 ELSE 0)
    /\ Measurement_overrun(m) = ref.overrun
    /\ Measurement_overflow(m) = ref.overflow

\* The poll protocol, followed by the operations after the first off ones of
\* an error-free trace: status reads separated by waits of `interval` while
\* data-ready is clear, then one block read and the return.
PollProtocol(off, interval) ==
    /\ Len(trace) = off => pending = StatusRead
    /\ \A i \in (off + 1)..Len(trace) :
         LET q == trace[i].req
             d == trace[i].resp.val
         IN /\ i = off + 1 => q = StatusRead
            /\ \/ /\ q = StatusRead
                  /\ IF Bit(d[1], 0) = 0
                     THEN NextOp(i) = Wait(interval)
                     ELSE IsBlockRead(NextOp(i))
               \/ /\ q = Wait(interval)
                  /\ NextOp(i) = StatusRead
               \/ /\ IsBlockRead(q)
                  /\ i = Len(trace) /\ Idle /\ pending = NoReq

\* the measurement decoded from the last two operations of a finished poll
PolledMeasurement ==
    RefDecode(trace[Len(trace) - 1].resp.val[1], trace[Len(trace)].resp.val)

\* C3: poll_measurement(poll_interval) without transport error reads
\* status-1 (write-then-read of 1 byte at 0x10); after each read with
\* data-ready clear it waits exactly poll_interval and reads again, however
\* often; after the first read with data-ready set it waits no more, reads
\* the 8-byte block once and returns the measurement decoded from it.
C3_PollMeasurementProtocol ==
    (call.fn = "poll_measurement" /\ NoTransportError) =>
        /\ PollProtocol(0, call.arg)
        /\ Idle => /\ result.ok
                   /\ SameMeasurement(result.val, PolledMeasurement)

C3_Witness ==
    /\ call.fn = "poll_measurement" /\ call.arg = 7
    /\ Idle /\ result.ok /\ Len(trace) = 6
    /\ trace[2].req = Wait(7) /\ trace[4].req = Wait(7)

\* C5: read_measurement without transport error reads status-1 once and
\* never waits; with data-ready clear it returns Ok(None) after that single
\* operation; with data-ready set it reads the 8-byte block once and returns
\* Some(measurement), decoded as poll_measurement decodes the same bytes.
C5_ReadMeasurementSingleCheck ==
    (call.fn = "read_measurement" /\ NoTransportError) =>
        /\ pending.kind # "delay"
        /\ \A i \in 1..Len(trace) : trace[i].req.kind # "delay"
        /\ Len(trace) = 0 => pending = StatusRead
        /\ Len(trace) >= 1 =>
             /\ trace[1].req = StatusRead
             /\ IF Bit(trace[1].resp.val[1], 0) = 0
                THEN Len(trace) = 1 /\ Idle /\ pending = NoReq /\ result = Ok(None)
                ELSE /\ IsBlockRead(NextOp(1))
                     /\ Len(trace) <= 2
                     /\ Len(trace) = 2 =>
                          /\ Idle /\ pending = NoReq
                          /\ result.ok /\ result.val.some
                          /\ SameMeasurement(result.val.value, PolledMeasurement)

C5_WitnessNone ==
    /\ call.fn = "read_measurement" /\ Idle /\ result = Ok(None)
    /\ Len(trace) = 1 /\ trace[1].resp.val = <<2>>

C5_WitnessSome ==
    /\ call.fn = "read_measurement" /\ Idle /\ result.ok /\ result.val.some
    /\ Len(trace) = 2

\* C8: self_test without transport error writes power-down to 0x31, waits
\* 100 us, writes the self-test code 0x10 to 0x31, then follows the poll
\* protocol with a poll interval of 10 us; it makes no other write, and its
\* result is the polled measurement with the validity check applied to it.
C8_SelfTestSequence ==
    (call.fn = "self_test" /\ NoTransportError) =>
        LET ops == << BusWrite(<<49, 0>>), Wait(100), BusWrite(<<49, 16>>) >>
            n == Len(trace)
        IN /\ n <= 3 => IsPrefix(Reqs(trace), ops)
           /\ n < 3 => pending = ops[n + 1]
           /\ n >= 3 => /\ Reqs(SubSeq(trace, 1, 3)) = ops
                        /\ PollProtocol(3, 10)
           /\ pending.kind = "write" => n < 3
           /\ \A i \in 4..n : trace[i].req.kind # "write"
           /\ Idle =>
                /\ Cardinality({i \in 1..n : trace[i].req.kind = "write"}) = 2
                /\ result.ok
                /\ SameMeasurement(result.val.measurement, PolledMeasurement)
                /\ LET m == PolledMeasurement
                   IN result.val.is_valid <=>
                        /\ -200 <= m.hx /\ m.hx <= 200
                        /\ -200 <= m.hy /\ m.hy <= 200
                        /\ -1000 <= m.hz /\ m.hz <= -200

C8_Witness ==
    /\ call.fn = "self_test" /\ Idle /\ result.ok
    /\ Len(trace) = 7 /\ trace[5].req = Wait(10)
    /\ result.val.is_valid

\* C10: soft_reset without transport error writes [0x32, 0x01] once, then
\* alternates a wait of 100 us and a read-back of control-3 (write-then-read
\* of 1 byte at 0x32), the wait always first; it returns success at the first
\* read-back whose bit 0 is clear and does nothing after it.
C10_SoftResetLoop ==
    (call.fn = "soft_reset" /\ NoTransportError) =>
        LET ReadBack == BusWriteThenRead(<<50>>, 1)
        IN /\ Len(trace) = 0 => pending = BusWrite(<<50, 1>>)
           /\ \A i \in 1..Len(trace) :
                LET q == trace[i].req
                IN /\ i = 1 => q = BusWrite(<<50, 1>>) /\ NextOp(i) = Wait(100)
                   /\ i > 1 /\ i % 2 = 0 => q = Wait(100) /\ NextOp(i) = ReadBack
                   /\ i > 1 /\ i % 2 = 1 =>
                        /\ q = ReadBack
                        /\ trace[i - 1].req = Wait(100)
                        /\ IF Bit(trace[i].resp.val[1], 0) = 0
                           THEN /\ i = Len(trace) /\ Idle /\ pending = NoReq
                                /\ result = Ok(Unit)
                           ELSE NextOp(i) = Wait(100)
           /\ Idle => Len(trace) >= 3

C10_Witness ==
    /\ call.fn = "soft_reset" /\ Idle /\ result = Ok(Unit)
    /\ Len(trace) = 7
    /\ trace[3].resp.val = <<1>> /\ trace[5].resp.val = <<255>>
    /\ trace[7].resp.val = <<252>>

\* position i of the call's operations: completed, or in flight
OpAt(i) == IF i <= Len(trace) THEN trace[i].req ELSE pending

MeasurementReturned ==
    /\ call.fn \in {"poll_measurement", "read_measurement", "self_test"}
    /\ Idle /\ result.ok
    /\ Len(trace) >= 2 /\ trace[Len(trace)].req.len = 8
ReturnedMeasurement ==
    CASE call.fn = "poll_measurement" -> result.val
      [] call.fn = "read_measurement" -> result.val.value
      [] call.fn = "self_test" -> result.val.measurement

\* C7 (as stated): status-1 and status-2 are both read in the bus
\* transaction that fetches the measurement's axis data: some transaction of
\* the call selects status-1 at 0x10 and also reads the block.
C7_StatusesInAxisTransaction ==
    MeasurementReturned =>
        \E i \in 1..Len(trace) :
            /\ trace[i].req.len >= 8
            /\ trace[i].req.kind = "write_read" /\ trace[i].req.bytes = <<16>>

\* C7 (amended): status-2 is read in the same transaction as the axis data
\* (the one 8-byte block read, from whose eighth byte overflow is taken),
\* while status-1, from which overrun is taken, is read in a separate
\* transaction: the one-byte write-then-read at 0x10 just before it.
C7_StatusOneReadSeparately ==
    MeasurementReturned =>
        LET n == Len(trace)
            m == ReturnedMeasurement
            block == trace[n].resp.val
        IN /\ Cardinality({i \in 1..n : trace[i].req.len = 8}) = 1
           /\ trace[n].req.bytes = <<>>
           /\ trace[n - 1].req = StatusRead
           /\ m.hx = Signed16(block[1], block[2])
           /\ m.hy = Signed16(block[3], block[4])
           /\ m.hz = Signed16(block[5], block[6])
           /\ Measurement_overflow(m) <=> Bit(block[8], 3) = 1
           /\ Measurement_overrun(m) <=> Bit(trace[n - 1].resp.val[1], 1) = 1

C7_Witness ==
    /\ MeasurementReturned /\ call.fn = "poll_measurement"
    /\ trace[Len(trace) - 1].resp.val = <<1>>
    /\ Bit(trace[Len(trace)].resp.val[8], 1) = 1
    /\ ~Measurement_overrun(result.val)

\* C6: from_raw_data on status-1 byte s and block b gives hx, hy, hz as the
\* little-endian signed 16-bit values of (b0,b1), (b2,b3), (b4,b5), overflow
\* iff bit 3 of b7 and overrun iff bit 1 of s; nothing else of s and b
\* (b6, the other bits of s and b7) enters the result.
C6_MeasurementDecoding ==
    dec_out.fn = "from_raw_data" =>
        LET s == dec_in.st1
            b == dec_in.buffer
            m == dec_out.val
        IN /\ m.hx = Signed16(b[1], b[2])
           /\ m.hy = Signed16(b[3], b[4])
           /\ m.hz = Signed16(b[5], b[6])
           /\ Measurement_overflow(m) <=> Bit(b[8], 3) = 1
           /\ Measurement_overrun(m) <=> Bit(s, 1) = 1
           /\ m.flags = 8 * Bit(b[8], 3) + 2 * Bit(s, 1)

C6_Witness ==
    /\ dec_out.fn = "from_raw_data"
    /\ dec_in.st1 = 2
    /\ dec_in.buffer = <<100, 0, 206, 255, 224, 252, 0, 8>>
    /\ dec_out.val = [hx |-> 100, hy |-> -50, hz |-> -800, flags |-> 10]

\* C9: is_valid of a self-test result is true iff -200 <= hx <= 200 and
\* -200 <= hy <= 200 and -1000 <= hz <= -200, bounds included, and the
\* result carries the measurement unchanged.
C9_SelfTestValidity ==
    dec_out.fn = "SelfTestResult_from" =>
        LET m == dec_in.measurement
        IN /\ dec_out.val.measurement = m
           /\ dec_out.val.is_valid <=>
                /\ -200 <= m.hx /\ m.hx <= 200
                /\ -200 <= m.hy /\ m.hy <= 200
                /\ -1000 <= m.hz /\ m.hz <= -200
           /\ (m.hx = 201 \/ m.hz = -199 \/ m.hz = -1001) => ~dec_out.val.is_valid

C9_Witness ==
    /\ dec_out.fn = "SelfTestResult_from"
    /\ dec_in.measurement.hx = 200 /\ dec_in.measurement.hy = -200
    /\ dec_in.measurement.hz = -200
    /\ dec_out.val.is_valid

\* the most recent completed operation, and whether it failed
LastOp == trace[Len(trace)]
NoErrorNow == trace = <<>> \/ LastOp.resp.ok
InPoll == call.fn = "poll_measurement" /\ ~Idle
InReset == call.fn = "soft_reset" /\ ~Idle
\* the device has just reported data-ready / the reset bit cleared
ReadyReported ==
    /\ trace # <<>> /\ LastOp.req = StatusRead
    /\ LastOp.resp.ok /\ Bit(LastOp.resp.val[1], 0) = 1
ResetCleared ==
    /\ trace # <<>> /\ LastOp.req = BusWriteThenRead(<<50>>, 1)
    /\ LastOp.resp.ok /\ Bit(LastOp.resp.val[1], 0) = 0
PollReturned == call.fn = "poll_measurement" /\ Idle
ResetReturned == call.fn = "soft_reset" /\ Idle
\* a return happens only on a transport error or on the awaited condition
ReturnOnlyOnConditionOrError ==
    /\ PollReturned =>
         \/ ~LastOp.resp.ok /\ ~result.ok
         \/ /\ Len(trace) >= 2 /\ result.ok
            /\ trace[Len(trace) - 1].req = StatusRead
            /\ Bit(trace[Len(trace) - 1].resp.val[1], 0) = 1
    /\ ResetReturned =>
         \/ ~LastOp.resp.ok /\ ~result.ok
         \/ ResetCleared /\ result.ok

\* C11: poll_measurement and soft_reset end only on the awaited condition or
\* on a transport error: when no transport error occurs and the device
\* eventually reports data-ready (resp. the reset bit cleared), the call
\* eventually returns success; and it never returns while the condition has
\* stayed false without error, after any number of iterations.
C11_WaitingLoopsTerminate ==
    /\ ([]NoErrorNow /\ [](InPoll => <>ReadyReported))
          => [](InPoll => <>(PollReturned /\ result.ok))
    /\ ([]NoErrorNow /\ [](InReset => <>ResetCleared))
          => [](InReset => <>(ResetReturned /\ result.ok))
    /\ []ReturnOnlyOnConditionOrError

C11_Witness ==
    /\ PollReturned /\ result.ok /\ Len(trace) = 4
    /\ trace[1].req = StatusRead /\ trace[1].resp.val = <<0>>
    /\ trace[2].req = Wait(call.arg)
    /\ trace[3].req = StatusRead /\ trace[3].resp.val = <<1>>
    /\ trace[4].req = BusPlainRead(8)

\* C12: in every operation the first transport error of a bus operation is
\* the operation's result, unchanged; the failed operation is not issued
\* again and no bus operation or wait follows it within the call.
C12_FirstErrorReturned ==
    \A i \in 1..Len(trace) :
        ~trace[i].resp.ok =>
            /\ i = Len(trace)
            /\ Idle /\ pending = NoReq
            /\ ~result.ok /\ result.err = trace[i].resp.err
            /\ result.err \in {"E1", "E2"}

C12_Witness ==
    /\ call.fn = "self_test" /\ Idle /\ Len(trace) = 5
    /\ trace[5].req = BusPlainRead(8)
    /\ trace[5].resp.err = "E2"
    /\ result.err = "E2"

\* the mode-register content the specification describes for byte b
RefModeDecode(b) ==
    LET c == b % 32
    IN CASE c = 0 -> [tag |-> "Mode", mode |-> "PowerDown", value |-> 0]
         [] c = 1 -> [tag |-> "Mode", mode |-> "SingleMeasurement", value |-> 0]
         [] c = 2 -> [tag |-> "Mode", mode |-> "Continuous10Hz", value |-> 0]
         [] c = 4 -> [tag |-> "Mode", mode |-> "Continuous20Hz", value |-> 0]
         [] c = 6 -> [tag |-> "Mode", mode |-> "Continuous50Hz", value |-> 0]
         [] c = 8 -> [tag |-> "Mode", mode |-> "Continuous100Hz", value |-> 0]
         [] c = 16 -> [tag |-> "Mode", mode |-> "SelfTest", value |-> 0]
         [] OTHER -> [tag |-> "Other", mode |-> "", value |-> c]

\* the dump the specification describes for the 16-byte block b (b[i + 1] is
\* byte i); status fields are the flag bits of their register types
RefDump(b) ==
    [ company_id |-> b[1],
      device_id |-> b[2],
      st1 |-> b[5] % 4,
      hx |-> Signed16(b[6], b[7]),
      hy |-> Signed16(b[8], b[9]),
      hz |-> Signed16(b[10], b[11]),
      st2 |-> 8 * ((b[13] \div 8) % 16),
      mode |-> RefModeDecode(b[15]),
      cntl3 |-> b[16] % 2 ]

DumpRead == BusWriteThenRead(<<0>>, 16)

\* C13: dump_registers issues exactly one bus operation, a write-then-read
\* selecting 0x00 and reading 16 bytes, and decodes company id from byte 0,
\* device id from byte 1, status-1 from byte 4 (bits 0-1), hx, hy, hz from
\* bytes (5,6), (7,8), (9,10) little-endian signed, status-2 from byte 12,
\* the mode-register content from byte 14 and control-3 from byte 15 (bit 0);
\* bytes 2, 3, 11 and 13 do not influence the result.
C13_DumpRegisters ==
    call.fn = "dump_registers" =>
        /\ Len(trace) = 0 => pending = DumpRead
        /\ Len(trace) >= 1 =>
             /\ Len(trace) = 1 /\ trace[1].req = DumpRead
             /\ Idle /\ pending = NoReq
             /\ trace[1].resp.ok =>
                  LET b == trace[1].resp.val
                  IN /\ result.ok /\ result.val = RefDump(b)
                     /\ \A k \in {3, 4, 12, 14} : \A x \in {0, 85, 255} :
                          RegisterDump_from_raw_data([b EXCEPT ![k] = x]) = result.val

C13_Witness ==
    /\ call.fn = "dump_registers" /\ Idle /\ result.ok
    /\ trace[1].resp.val =
         <<72, 9, 170, 85, 3, 100, 0, 206, 255, 224, 252, 119, 120, 255, 31, 1>>
    /\ result.val.company_id = 72 /\ result.val.device_id = 9
    /\ result.val.st1 = 3 /\ result.val.hx = 100 /\ result.val.hy = -50
    /\ result.val.hz = -800 /\ result.val.st2 = 120
    /\ result.val.mode = [tag |-> "Other", mode |-> "", value |-> 31]
    /\ result.val.cntl3 = 1

\* the decoding of block b with the bytes at offsets o1, o2, o3 replaced by
\* x1, x2, x3
DumpVaried(b, o1, o2, o3, x1, x2, x3) ==
    RegisterDump_from_raw_data([b EXCEPT ![o1 + 1] = x1, ![o2 + 1] = x2, ![o3 + 1] = x3])

\* C14 (as stated): the dump decoding discards the reserved bytes at offsets
\* 2 and 3 and the byte at offset 6: blocks that differ only at offsets 2, 3
\* and 6 decode to the same RegisterDump.
C14_DiscardsOffsets236 ==
    dec_out.fn = "RegisterDump_from_raw_data" =>
        \A x1 \in {0, 85, 255} : \A x2 \in {0, 85, 255} : \A x3 \in {0, 85, 255} :
            DumpVaried(dec_in.buffer, 2, 3, 6, x1, x2, x3) = dec_out.val

\* C14 (amended): the dump decoding discards the reserved bytes at offsets 2
\* and 3, the dummy byte at offset 11 and the byte at offset 13: blocks that
\* differ only at these offsets decode to the same RegisterDump.  The byte at
\* offset 6 is not discarded: it is the high byte of hx, and changing it
\* changes hx.
C14_DiscardsOffsets231113 ==
    dec_out.fn = "RegisterDump_from_raw_data" =>
        LET b == dec_in.buffer
        IN /\ \A x1 \in {0, 85, 255} : \A x2 \in {0, 85, 255} : \A x3 \in {0, 85, 255} :
                /\ DumpVaried(b, 2, 3, 11, x1, x2, x3) = dec_out.val
                /\ DumpVaried(b, 3, 11, 13, x1, x2, x3) = dec_out.val
           /\ dec_out.val.hx = Signed16(b[6], b[7])
           /\ \A x \in {0, 85, 255} :
                x # b[7] => DumpVaried(b, 2, 3, 6, b[3], b[4], x).hx # dec_out.val.hx

C14_Witness ==
    /\ dec_out.fn = "RegisterDump_from_raw_data"
    /\ dec_in.buffer =
         <<72, 9, 170, 85, 3, 100, 85, 206, 255, 224, 252, 119, 120, 255, 31, 1>>
    /\ dec_out.val.hx = 21860

\* C15 (as stated): the dump is one contiguous 16-byte block starting at
\* 0x00 and every field is decoded from the block byte at position (register
\* address - start address): status-1 from register 0x10, the axes from
\* 0x11-0x16, status-2 from 0x18, mode from 0x31 and control-3 from 0x32.
C15_FieldsAtAddressOffsets ==
    (call.fn = "dump_registers" /\ Idle /\ result.ok) =>
        LET start == trace[1].req.bytes[1]
            b == trace[1].resp.val
            d == result.val
        IN /\ trace[1].req.len = 16
           /\ \A a \in {0, 1, 16, 17, 18, 19, 20, 21, 22, 24, 49, 50} :
                (a - start) \in 0..(trace[1].req.len - 1)
           /\ d.company_id = b[0 - start + 1]
           /\ d.device_id = b[1 - start + 1]
           /\ d.st1 = b[16 - start + 1] % 4
           /\ d.hx = Signed16(b[17 - start + 1], b[18 - start + 1])
           /\ d.hy = Signed16(b[19 - start + 1], b[20 - start + 1])
           /\ d.hz = Signed16(b[21 - start + 1], b[22 - start + 1])
           /\ d.st2 = 8 * ((b[24 - start + 1] \div 8) % 16)
           /\ d.mode = RefModeDecode(b[49 - start + 1])
           /\ d.cntl3 = b[50 - start + 1] % 2

\* C16: mode-register decoding is defined for all 256 bytes and looks only
\* at the low 5 bits: b decodes to the mode with code (b & 0x1F) when that
\* code is one of 0, 1, 2, 4, 6, 8, 16, otherwise to the opaque variant
\* carrying (b & 0x1F); 0b00000010 gives continuous 10 Hz and 0b00011111
\* the opaque variant carrying 31.
C16_ModeRegisterDecoding ==
    dec_out.fn = "ModeRegister_from" =>
        LET b == dec_in.byte
            d == dec_out.val
        IN /\ d = RefModeDecode(b)
           /\ d.tag \in {"Mode", "Other"}
           /\ d.tag = "Mode" <=> (b % 32) \in {0, 1, 2, 4, 6, 8, 16}
           /\ d.tag = "Other" => d.value = b % 32
           /\ b = 2 => d = [tag |-> "Mode", mode |-> "Continuous10Hz", value |-> 0]
           /\ b = 31 => d = [tag |-> "Other", mode |-> "", value |-> 31]

C16_Witness ==
    /\ dec_out.fn = "ModeRegister_from"
    /\ dec_in.byte = 226
    /\ dec_out.val = [tag |-> "Mode", mode |-> "Continuous10Hz", value |-> 0]

\* C17 (as stated): decode-then-encode of byte b keeps only bits 0 and 1
\* for status-1, only bit 3 for status-2, only bit 0 for control-3, and b
\* unchanged for the identity and axis byte registers.
C17_RoundTripDocumentedBits ==
    dec_out.fn = "Register8_from_into" =>
        LET b == dec_in.byte
            R == dec_in.reg
        IN /\ R = "St1" => dec_out.val = b % 4
           /\ R = "St2" => dec_out.val = 8 * Bit(b, 3)
           /\ R = "Cntl3" => dec_out.val = b % 2
           /\ R \in {"Wia1", "Wia2", "Hxl", "Hxh", "Hyl", "Hyh", "Hzl", "Hzh"} =>
                dec_out.val = b

\* C17 (amended): decode-then-encode of byte b keeps only bits 0 and 1 for
\* status-1, bits 3 to 6 for status-2 (the overflow bit and the reserved
\* bits 4-6, which the register type declares), only bit 0 for control-3,
\* and b unchanged for the identity and axis byte registers; no byte fails.
C17_RoundTripDeclaredBits ==
    dec_out.fn = "Register8_from_into" =>
        LET b == dec_in.byte
            R == dec_in.reg
        IN /\ dec_out.val \in 0..255
           /\ R = "St1" => dec_out.val = b % 4
           /\ R = "St2" => dec_out.val = 8 * ((b \div 8) % 16)
           /\ R = "Cntl3" => dec_out.val = b % 2
           /\ R \in {"Wia1", "Wia2", "Hxl", "Hxh", "Hyl", "Hyh", "Hzl", "Hzh"} =>
                dec_out.val = b

C17_Witness ==
    /\ dec_out.fn = "Register8_from_into"
    /\ dec_in.reg = "St2" /\ dec_in.byte = 255
    /\ dec_out.val = 120

\* C18: for every raw count v from -32768 to 32767, x_nanoteslas,
\* y_nanoteslas and z_nanoteslas of a measurement whose axis is v are exactly
\* v * 150, a signed 32-bit value between -4915200 and 4915050.
C18_NanoteslasExact ==
    dec_out.fn = "nanoteslas" =>
        LET m == dec_in.measurement
            n == dec_out.val
        IN /\ n.x = m.hx * 150 /\ n.y = m.hy * 150 /\ n.z = m.hz * 150
           /\ \A r \in {n.x, n.y, n.z} :
                /\ -4915200 <= r /\ r <= 4915050
                /\ -2147483647 - 1 <= r /\ r <= 2147483647

C18_Witness ==
    /\ dec_out.fn = "nanoteslas"
    /\ dec_in.measurement.hx = -32768 /\ dec_in.measurement.hy = 32767
    /\ dec_out.val.x = -4915200 /\ dec_out.val.y = 4915050

\* the operations issued and the outcome when variant vt runs a call against
\* the responses resps, one per operation
RECURSIVE ReplayFrom(_, _, _, _)
ReplayFrom(vt, s, resps, reqs) ==
    IF resps = <<>> \/ s.frames = <<>>
    THEN [reqs |-> reqs, pending |-> s.pending, result |-> s.result,
          returned |-> s.frames = <<>>]
    ELSE ReplayFrom(vt, Run(vt, s.frames, Head(resps)), Tail(resps),
                    Append(reqs, s.pending))
Replay(vt, fn, arg, resps) ==
    ReplayFrom(vt, Run(vt, <<NewFrame(fn, arg)>>, NoVal), resps, <<>>)

Responses == [i \in 1..Len(trace) |-> trace[i].resp]
Observed ==
    [reqs |-> Reqs(trace), pending |-> pending, result |-> result, returned |-> Idle]

\* C19: the blocking and the asynch variant behave identically: for every
\* operation and every sequence of device responses (bytes and transport
\* errors) both issue the same bus operations (kind, address, bytes written,
\* read length) and waits (durations) in the same order and return the same
\* result.
C19_VariantsEquivalent ==
    call.fn # "none" =>
        /\ Replay("blocking", call.fn, call.arg, Responses) = Observed
        /\ Replay("asynch", call.fn, call.arg, Responses) = Observed

C19_Witness ==
    /\ variant = "asynch" /\ call.fn = "self_test" /\ Idle /\ result.ok
    /\ Len(trace) = 7 /\ trace[5].req = Wait(10)
    /\ Replay("blocking", "self_test", call.arg, Responses).result = result

C21_FixedBusAddress ==
    \A i \in 1..(Len(trace) + 1) :
        OpAt(i).kind \in {"write", "write_read", "read"} => OpAt(i).addr = 12

C21_Witness ==
    /\ variant = "blocking" /\ call.fn = "who_i_am" /\ Idle /\ result.ok
    /\ trace[1].req.kind = "write_read" /\ trace[1].req.addr = 12

\* C22: the overrun flag of the measurement poll_measurement returns comes
\* only from the status-1 byte of the final read, the one with data-ready
\* set: overrun bits of earlier not-ready reads are dropped, so with bit 1
\* set in an earlier read and clear in the final one overrun is false.
C22_OverrunFromFinalStatusOnly ==
    (call.fn = "poll_measurement" /\ Idle /\ result.ok) =>
        LET n == Len(trace)
        IN /\ n >= 2 /\ trace[n - 1].req = StatusRead
           /\ Bit(trace[n - 1].resp.val[1], 0) = 1
           /\ Measurement_overrun(result.val) <=> Bit(trace[n - 1].resp.val[1], 1) = 1
           /\ \A i \in 1..(n - 2) :
                trace[i].req = StatusRead => Bit(trace[i].resp.val[1], 0) = 0

C22_Witness ==
    /\ call.fn = "poll_measurement" /\ Idle /\ result.ok /\ Len(trace) = 4
    /\ trace[1].req = StatusRead /\ trace[1].resp.val = <<2>>
    /\ trace[3].req = StatusRead /\ trace[3].resp.val = <<1>>
    /\ ~Measurement_overrun(result.val)

\* The device of C23: the register-select byte of a write-then-read sets its
\* read pointer and every byte read advances the pointer by one register; a
\* write sets the pointer to its first byte and every data byte written
\* advances it; a wait leaves it alone.  p is the pointer before operation q.
PointerAfter(q, p) ==
    CASE q.kind = "write_read" -> q.bytes[1] + q.len
      [] q.kind = "read" -> p + q.len
      [] q.kind = "write" -> q.bytes[1] + Len(q.bytes) - 1
      [] OTHER -> p

\* the pointer before the i-th operation of the call, p0 being the pointer
\* that earlier calls left behind
RECURSIVE PointerBefore(_, _)
PointerBefore(i, p0) ==
    IF i = 1 THEN p0 ELSE PointerAfter(trace[i - 1].req, PointerBefore(i - 1, p0))

\* the registers whose contents the i-th operation fetches, in order
RegistersRead(i, p0) ==
    [k \in 1..OpAt(i).len |->
        (IF OpAt(i).kind = "write_read" THEN OpAt(i).bytes[1] ELSE PointerBefore(i, p0))
        + k - 1]

\* pointers that earlier operations may have left: after a dump, a status
\* read, a block read, a mode write, a reset read-back, and the ends
StartPointers == {0, 16, 17, 25, 50, 51, 255}

\* C23: against this device, whatever earlier operations left in the read
\* pointer, the 8 bytes that poll_measurement and read_measurement fetch are
\* the registers 0x11 to 0x18 in order, because the successful status-1 read
\* at 0x10 immediately precedes the block read in the same call; the byte
\* decoded as status-2 is register 0x18 and the unused byte register 0x17.
C23_BlockIsRegisters11To18 ==
    \A p0 \in StartPointers : \A i \in 1..(Len(trace) + 1) :
        (OpAt(i).kind = "read" /\ call.fn \in {"poll_measurement", "read_measurement"}) =>
            /\ OpAt(i).len = 8
            /\ i > 1 /\ trace[i - 1].req = StatusRead /\ trace[i - 1].resp.ok
            /\ RegistersRead(i, p0) = <<17, 18, 19, 20, 21, 22, 23, 24>>
            /\ (i = Len(trace) /\ trace[i].resp.ok) =>
                 /\ MeasurementReturned
                 /\ Measurement_overflow(ReturnedMeasurement)
                      <=> Bit(trace[i].resp.val[8], 3) = 1
                 /\ ReturnedMeasurement.hz = Signed16(trace[i].resp.val[5], trace[i].resp.val[6])

C23_Witness ==
    /\ call.fn = "read_measurement" /\ Idle /\ result.ok /\ result.val.some
    /\ Len(trace) = 2
    /\ RegistersRead(1, 50) = <<16>>
    /\ RegistersRead(2, 50) = <<17, 18, 19, 20, 21, 22, 23, 24>>
    /\ trace[2].resp.val[7] = 255 /\ trace[2].resp.val[8] = 255
    /\ Measurement_overflow(result.val.value)

\* the register a bus operation selects: the first byte it writes
Selects(q, a) == q.kind \in {"write", "write_read"} /\ q.bytes[1] = a
\* a write of register data: a register-select byte followed by data
WritesRegister(q) == q.kind = "write" /\ Len(q.bytes) >= 2

\* C24: no call selects the test-only addresses 0x33 and 0x34, and the
\* high-level operations write no register but mode-control and control-3:
\* switch_mode and self_test write only 0x31, soft_reset writes only 0x32,
\* and who_i_am, poll_measurement, read_measurement and dump_registers write
\* no register data, their only written bytes being the register-select
\* bytes 0x00 and 0x10.
C24_OnlyControlRegistersWritten ==
    \A i \in 1..(Len(trace) + 1) :
        LET q == OpAt(i)
        IN /\ ~Selects(q, 51) /\ ~Selects(q, 52)
           /\ call.fn \in {"switch_mode", "self_test"} =>
                (q.kind = "write" => Len(q.bytes) = 2 /\ q.bytes[1] = 49)
           /\ call.fn = "soft_reset" =>
                (q.kind = "write" => q.bytes = <<50, 1>>)
           /\ call.fn \in {"who_i_am", "poll_measurement", "read_measurement",
                           "dump_registers"} =>
                /\ ~WritesRegister(q) /\ q.kind # "write"
                /\ q.kind = "write_read" => q.bytes \in {<<0>>, <<16>>}
                /\ q.kind = "read" => q.bytes = <<>>

C24_Witness ==
    /\ call.fn = "self_test" /\ Idle /\ result.ok
    /\ trace[1].req.bytes = <<49, 0>> /\ trace[3].req.bytes = <<49, 16>>
    /\ \A i \in 4..Len(trace) : trace[i].req.kind # "write"

\* a mode-register value that decoding can produce: a recognized mode, or
\* the opaque variant with a value in 0..31 that is no mode code
Decodable(x) ==
    \/ x.tag = "Mode"
    \/ x.tag = "Other" /\ x.value \in 0..31 /\ x.value \notin {0, 1, 2, 4, 6, 8, 16}

\* C25: for the mode-register codec, decode-then-encode of any byte b gives
\* b & 0x1F; every decoded value is a recognized mode or the opaque variant
\* with a value in 0..31 that is not a mode code; encode-then-decode is the
\* identity exactly on these values, and not on an opaque value above 31 or
\* equal to a mode code, which is encoded unmasked and decodes to another
\* value.
C25_ModeRegisterRoundTrips ==
    /\ (dec_out.fn = "Register8_from_into" /\ dec_in.reg = "Cntl2") =>
         dec_out.val = dec_in.byte % 32
    /\ dec_out.fn = "ModeRegister_from" => Decodable(dec_out.val)
    /\ dec_out.fn = "ModeRegister_into_from" =>
         /\ Decodable(dec_out.val)
         /\ dec_out.val = dec_in.register <=> Decodable(dec_in.register)
         /\ (dec_in.register.tag = "Other" /\ dec_in.register.value > 31) =>
              dec_out.val = RefModeDecode(dec_in.register.value)

C25_Witness ==
    /\ dec_out.fn = "ModeRegister_into_from"
    /\ dec_in.register = [tag |-> "Other", mode |-> "", value |-> 200]
    /\ dec_out.val = [tag |-> "Mode", mode |-> "Continuous100Hz", value |-> 0]

====
